---------------------------- MODULE Spec2Model ----------------------------
(***************************************************************************)
(* Model of entrega-bd-02-03/app/app.py: the appointment service of a      *)
(* clinic network.  Requests to marca_consulta (book) and cancela_consulta *)
(* (cancel) are handled concurrently, each inside one database             *)
(* transaction on the shared table consulta.                               *)
(*                                                                         *)
(* Strings are TLA+ strings; character i of s is SubSeq(s, i, i).  A date  *)
(* is its proleptic Gregorian ordinal (Python's date.toordinal()), a time  *)
(* of day is its number of seconds since midnight.                         *)
(***************************************************************************)
EXTENDS Integers, Sequences, FiniteSets, Bags, TLC

(***************************************************************************)
(* Text helpers.                                                           *)
(***************************************************************************)
Digits == {"0", "1", "2", "3", "4", "5", "6", "7", "8", "9"}

Ch(s, i) == SubSeq(s, i, i)

\* A character str.isdigit() takes for a digit that is no decimal digit: the
\* regular expression \d does not match it and int() does not convert it.
Superscripts == {"²"}

\* \d+ : non-empty and every character a decimal digit.
isdecimal(s) == Len(s) > 0 /\ \A i \in 1..Len(s) : Ch(s, i) \in Digits

\* str.isdigit(): non-empty and every character a digit.
isdigit(s) ==
    Len(s) > 0 /\ \A i \in 1..Len(s) : Ch(s, i) \in Digits \cup Superscripts

DigitVal(c) ==
    CASE c = "0" -> 0 [] c = "1" -> 1 [] c = "2" -> 2 [] c = "3" -> 3
      [] c = "4" -> 4 [] c = "5" -> 5 [] c = "6" -> 6 [] c = "7" -> 7
      [] c = "8" -> 8 [] c = "9" -> 9

\* int(s) for a string of digits.
RECURSIVE IntOf(_)
IntOf(s) ==
    IF Len(s) = 0 THEN 0
    ELSE 10 * IntOf(SubSeq(s, 1, Len(s) - 1)) + DigitVal(Ch(s, Len(s)))

(***************************************************************************)
(* Calendar: datetime.date as an ordinal, weekday() with Monday = 0.       *)
(***************************************************************************)
IsLeap(y) == (y % 4 = 0) /\ ((y % 100 # 0) \/ (y % 400 = 0))

DaysInMonth(y, m) ==
    CASE m \in {1, 3, 5, 7, 8, 10, 12} -> 31
      [] m \in {4, 6, 9, 11} -> 30
      [] m = 2 -> IF IsLeap(y) THEN 29 ELSE 28

RECURSIVE DaysBeforeMonth(_, _)
DaysBeforeMonth(y, m) ==
    IF m = 1 THEN 0 ELSE DaysBeforeMonth(y, m - 1) + DaysInMonth(y, m - 1)

ToOrdinal(y, m, d) ==
    LET p == y - 1
    IN  p * 365 + (p \div 4) - (p \div 100) + (p \div 400)
          + DaysBeforeMonth(y, m) + d

\* date.weekday(): 0 = Monday .. 6 = Sunday.
Weekday(ord) == (ord + 6) % 7

(***************************************************************************)
(* datetime.strptime for the two formats the handlers use.  A string that  *)
(* has no parse is one on which strptime raises ValueError.                *)
(***************************************************************************)
\* The directive %m: 1[0-2]|0[1-9]|[1-9]
MatchesMonth(t) ==
    \/ Len(t) = 1 /\ Ch(t, 1) \in Digits \ {"0"}
    \/ Len(t) = 2 /\ Ch(t, 1) = "1" /\ Ch(t, 2) \in {"0", "1", "2"}
    \/ Len(t) = 2 /\ Ch(t, 1) = "0" /\ Ch(t, 2) \in Digits \ {"0"}

\* The directive %d: 3[01]|[12]\d|0[1-9]|[1-9]| [1-9]
MatchesDay(t) ==
    \/ Len(t) = 1 /\ Ch(t, 1) \in Digits \ {"0"}
    \/ Len(t) = 2 /\ Ch(t, 1) = "3" /\ Ch(t, 2) \in {"0", "1"}
    \/ Len(t) = 2 /\ Ch(t, 1) \in {"1", "2"} /\ Ch(t, 2) \in Digits
    \/ Len(t) = 2 /\ Ch(t, 1) \in {"0", " "} /\ Ch(t, 2) \in Digits \ {"0"}

\* The directive %H: 2[0-3]|[0-1]\d|\d
MatchesHour(t) ==
    \/ Len(t) = 1 /\ Ch(t, 1) \in Digits
    \/ Len(t) = 2 /\ Ch(t, 1) = "2" /\ Ch(t, 2) \in {"0", "1", "2", "3"}
    \/ Len(t) = 2 /\ Ch(t, 1) \in {"0", "1"} /\ Ch(t, 2) \in Digits

\* The directive %M: [0-5]\d|\d
MatchesMinute(t) ==
    \/ Len(t) = 1 /\ Ch(t, 1) \in Digits
    \/ Len(t) = 2 /\ Ch(t, 1) \in {"0", "1", "2", "3", "4", "5"}
                  /\ Ch(t, 2) \in Digits

\* The directive %S: 6[0-1]|[0-5]\d|\d
MatchesSecond(t) ==
    \/ MatchesMinute(t)
    \/ Len(t) = 2 /\ Ch(t, 1) = "6" /\ Ch(t, 2) \in {"0", "1"}

\* int() of a matched field (a leading blank of %d is skipped).
FieldVal(t) == IF Ch(t, 1) = " " THEN IntOf(SubSeq(t, 2, Len(t))) ELSE IntOf(t)

\* The splits of s as a <sep> b <sep> c, as <<i, j>>: the separators' places.
Splits(s, sep) ==
    {ij \in (1..Len(s)) \X (1..Len(s)) :
        /\ ij[1] < ij[2]
        /\ Ch(s, ij[1]) = sep
        /\ Ch(s, ij[2]) = sep}

\* The parses of s under "%Y-%m-%d": where its two separators stand.  The
\* fields must match their directives and form a date (year >= 1, a day the
\* month has).
DataParses(s) ==
    {ij \in Splits(s, "-") :
        LET y == SubSeq(s, 1, ij[1] - 1)
            m == SubSeq(s, ij[1] + 1, ij[2] - 1)
            d == SubSeq(s, ij[2] + 1, Len(s))
        IN  /\ Len(y) = 4 /\ isdecimal(y)
            /\ MatchesMonth(m)
            /\ MatchesDay(d)
            /\ IntOf(y) >= 1
            /\ FieldVal(d) <= DaysInMonth(IntOf(y), IntOf(m))}

\* The parses of s under "%H:%M:%S"; time() takes seconds 0..59 only.
HoraParses(s) ==
    {ij \in Splits(s, ":") :
        LET h == SubSeq(s, 1, ij[1] - 1)
            m == SubSeq(s, ij[1] + 1, ij[2] - 1)
            x == SubSeq(s, ij[2] + 1, Len(s))
        IN  /\ MatchesHour(h)
            /\ MatchesMinute(m)
            /\ MatchesSecond(x)
            /\ IntOf(x) <= 59}

FormatoData == "%Y-%m-%d"
FormatoHora == "%H:%M:%S"

\* datetime.strptime(s, "%Y-%m-%d").date(): <<ordinal>>, or <<>> for the
\* ValueError.
strptime_data(s) ==
    IF DataParses(s) = {} THEN <<>>
    ELSE LET ij == CHOOSE x \in DataParses(s) : TRUE
         IN  <<ToOrdinal(IntOf(SubSeq(s, 1, ij[1] - 1)),
                         IntOf(SubSeq(s, ij[1] + 1, ij[2] - 1)),
                         FieldVal(SubSeq(s, ij[2] + 1, Len(s))))>>

\* datetime.strptime(s, "%H:%M:%S").time(): <<seconds since midnight>>, or
\* <<>> for the ValueError.
strptime_hora(s) ==
    IF HoraParses(s) = {} THEN <<>>
    ELSE LET ij == CHOOSE x \in HoraParses(s) : TRUE
         IN  <<IntOf(SubSeq(s, 1, ij[1] - 1)) * 3600
                 + IntOf(SubSeq(s, ij[1] + 1, ij[2] - 1)) * 60
                 + IntOf(SubSeq(s, ij[2] + 1, Len(s)))>>

(***************************************************************************)
(* The argument values the requests of the model are drawn from; "" is an  *)
(* absent argument.  The parses of the date and time arguments are tabled  *)
(* once.                                                                   *)
(***************************************************************************)
ArgClinica == {"A", "B", "X"}
ArgPaciente == {"12345678901", "22345678901", "99999999999", "1234567890"}
ArgMedico == {"123456789", "223456789", "999999999"}
ArgData == {"2024-06-03", "2024-06-10", "2024-06-11"}
ArgHora == {"09:00:00", "13:15:00"}

\* The argument values of the requests whose validation is examined: absent,
\* malformed, out of range, and on both sides of every limit of the rules.
ValClinica == {"A", "X"}
ValPaciente == {"", "1234567890", "12345678901", "1234567890a", "1234567890²"}
ValMedico == {"", "12345678", "123456789", "12345678x"}
ValData == {"", "2024-06-03", "2024-06-05", "2024-06-10", "2024-02-30",
            "10/06/2024"}
ValHora == {"", "25:00:00", "9:00", "07:59:59", "08:00:00", "10:59:59",
            "11:00:00", "12:30:00", "12:59:59", "13:00:00", "13:15:00",
            "13:59:59", "14:00:00", "18:59:59", "19:00:00"}

DataTable == [s \in ArgData \cup ValData |-> strptime_data(s)]
HoraTable == [s \in ArgHora \cup ValHora |-> strptime_hora(s)]

Strptime(s, formato) ==
    IF formato = FormatoData
    THEN (IF s \in DOMAIN DataTable THEN DataTable[s] ELSE strptime_data(s))
    ELSE (IF s \in DOMAIN HoraTable THEN HoraTable[s] ELSE strptime_hora(s))

\* verificar_formato_data(data_str, formato): strptime raised no ValueError.
verificar_formato_data(data_str, formato) == Strptime(data_str, formato) # <<>>

\* The date and the time of arguments that passed verificar_formato_data.
StrpDate(s) == Strptime(s, FormatoData)[1]
StrpTime(s) == Strptime(s, FormatoHora)[1]

(***************************************************************************)
(* The database.  clinica, medico, paciente and trabalha are never written *)
(* by the service; consulta is.  The surrogate column consulta.id is never *)
(* read by the service, so consulta is a bag of rows                       *)
(* [ssn, nif, nome, data, hora].                                           *)
(***************************************************************************)
clinica == {[nome |-> "A", morada |-> "Rua A"],
            [nome |-> "B", morada |-> "Rua B"]}

medico == {[nif |-> "123456789", nome |-> "Ana", especialidade |-> "Cardiologia"],
           [nif |-> "223456789", nome |-> "Rui", especialidade |-> "Ortopedia"],
           [nif |-> "323456789", nome |-> "Eva", especialidade |-> "Cardiologia"],
           [nif |-> "423456789", nome |-> "Gil", especialidade |-> "Pediatria"]}

\* The second patient is the first doctor (same nif).
paciente == {[ssn |-> "12345678901", nif |-> "500000001"],
             [ssn |-> "22345678901", nif |-> "123456789"]}

\* dia_da_semana is compared with Python's weekday(): 0 = Monday.  The
\* third doctor works at both clinics, on different weekdays; the fourth
\* doctor's only row holds a number that is no value of weekday().
trabalha == {[nif |-> "123456789", nome |-> "A", dia_da_semana |-> 0],
             [nif |-> "223456789", nome |-> "B", dia_da_semana |-> 0],
             [nif |-> "323456789", nome |-> "A", dia_da_semana |-> 1],
             [nif |-> "323456789", nome |-> "A", dia_da_semana |-> 3],
             [nif |-> "323456789", nome |-> "B", dia_da_semana |-> 2],
             [nif |-> "423456789", nome |-> "B", dia_da_semana |-> 7]}

(***************************************************************************)
(* Requests: the path parameter clinica and the four query arguments, ""   *)
(* for an argument that is absent.                                         *)
(***************************************************************************)
Procs == {1, 2}

Args ==[clinica : ArgClinica, paciente : ArgPaciente, medico : ArgMedico,
         data : ArgData, hora : ArgHora]

NoReq == [op |-> "none"]
NoResp == [status |-> 0, message |-> ""]

VARIABLES
    consulta,   \* the committed rows of table consulta, a bag
    clock,      \* datetime.now(): [date, time], time in seconds
    pc,         \* pc[p]: the statement request handler p is at, or "idle"
    req,        \* req[p]: the request p is handling; of an idle handler,
                \* the request that has arrived for it (NoReq: none)
    tx,         \* tx[p]: the uncommitted writes of p's transaction
    resp,       \* resp[p]: the last response p returned
    lista,      \* the handler of lista_medicos_clinica_especialidade
    gerar,      \* a call of gerar_horarios_disponiveis and its result
    cenario     \* the client of the end-to-end scenario

vars == <<consulta, clock, pc, req, tx, resp, lista, gerar, cenario>>

\* What the handlers of marca_consulta and cancela_consulta never touch.
others == <<lista, gerar, cenario>>

NoTx == [ins |-> EmptyBag, del |-> EmptyBag]

\* The handler of lista_medicos_clinica_especialidade between requests; its
\* fields are the handler's local variables.
ListaIdle ==
    [pc |-> "idle", clinica |-> "", especialidade |-> "",
     now |-> [date |-> 0, time |-> 0],
     medicos |-> <<>>, medico |-> [nif |-> "", nome |-> ""],
     dias_da_semana |-> {}, consultas_existentes |-> <<>>,
     horarios_disponiveis |-> <<>>, data_atual |-> 0,
     resultado |-> <<>>, resp |-> NoResp]

\* No call of gerar_horarios_disponiveis of its own is under way.
GerarIdle ==
    [pc |-> "idle", inicio |-> [date |-> 0, time |-> 0],
     fim |-> [date |-> 0, time |-> 0], intervalo_minutos |-> 0,
     horarios |-> <<>>]

\* The client before it has sent a request: n counts the requests of a
\* client that counts them, pedido is the last one, antes the table consulta
\* when it started.
CenarioIdle == [n |-> 0, pedido |-> NoReq, antes |-> EmptyBag]

\* The service at rest: nothing booked, no request in flight.
Rest ==
    /\ pc = [p \in Procs |-> "idle"]
    /\ req = [p \in Procs |-> NoReq]
    /\ tx = [p \in Procs |-> NoTx]
    /\ resp = [p \in Procs |-> NoResp]
    /\ lista = ListaIdle
    /\ gerar = GerarIdle
    /\ cenario = CenarioIdle

Init ==
    /\ consulta = EmptyBag
    /\ clock = [date |-> ToOrdinal(2024, 6, 5), time |-> 10 * 3600]
    /\ Rest

(***************************************************************************)
(* Validation of the arguments (both handlers, the same cascade).          *)
(***************************************************************************)
\* datetime.now() + timedelta(hours=1)
Now ==
    IF clock.time + 3600 >= 86400
    THEN [date |-> clock.date + 1, time |-> clock.time + 3600 - 86400]
    ELSE [date |-> clock.date, time |-> clock.time + 3600]

\* a > b on datetimes
After(a, b) == a.date > b.date \/ (a.date = b.date /\ a.time > b.time)

\* datetime.combine(strptime(data).date(), strptime(hora).time())
TimeRequest(data, hora) == [date |-> StrpDate(data), time |-> StrpTime(hora)]

\* Mutant: the morning window closes after 13:00:00, not before it.
InHorario_fechado(t) ==
    \/ (t >= 8 * 3600 /\ t <= 13 * 3600)
    \/ (t >= 14 * 3600 /\ t < 19 * 3600)

\* The hour window: [08:00:00, 13:00:00) or [14:00:00, 19:00:00).
InHorario(t) ==
    \/ (t >= 8 * 3600 /\ t < 13 * 3600)
    \/ (t >= 14 * 3600 /\ t < 19 * 3600)

ErrPacienteVazio == "O campo paciente precisa de estar preenchido."
ErrPacienteFormato == "Formato invalido para o campo paciente."
ErrMedicoVazio == "O campo medico precisa de estar preenchido."
ErrMedicoFormato == "Formato invalido para o campo medico."
ErrDataVazia == "O campo data precisa de estar preenchido."
ErrDataFormato == "Formato invalido para o campo data. Formato esperado: YYYY-MM-DD"
ErrHoraVazia == "O campo hora precisa de estar preenchido."
ErrHoraFormato == "Formato invalido para o campo hora. Formato esperado: HH:MM:SS"
ErrPassado == "O horario inserido nao pode ser no passado: "
ErrHorario == "O horario inserido deve estar no horario 8-13h e 14-19h."
NoError == "None"

\* marca_consulta: the error its cascade ends with, NoError when every rule
\* passes.
Validar(a) ==
    IF a.paciente = "" THEN ErrPacienteVazio
    ELSE IF Len(a.paciente) # 11 \/ ~isdigit(a.paciente) THEN ErrPacienteFormato
    ELSE IF a.medico = "" THEN ErrMedicoVazio
    ELSE IF Len(a.medico) # 9 \/ ~isdigit(a.medico) THEN ErrMedicoFormato
    ELSE IF a.data = "" THEN ErrDataVazia
    ELSE IF ~verificar_formato_data(a.data, FormatoData) THEN ErrDataFormato
    ELSE IF a.hora = "" THEN ErrHoraVazia
    ELSE IF ~verificar_formato_data(a.hora, FormatoHora) THEN ErrHoraFormato
    ELSE IF After(Now, TimeRequest(a.data, a.hora)) THEN ErrPassado
    ELSE IF ~InHorario(StrpTime(a.hora)) THEN ErrHorario
    ELSE NoError

\* Mutant: cancela_consulta looks at the time before the doctor.
ValidarCancela_hora_primeiro(a) ==
    IF a.paciente = "" THEN ErrPacienteVazio
    ELSE IF Len(a.paciente) # 11 \/ ~isdigit(a.paciente) THEN ErrPacienteFormato
    ELSE IF a.hora = "" THEN ErrHoraVazia
    ELSE IF ~verificar_formato_data(a.hora, FormatoHora) THEN ErrHoraFormato
    ELSE IF a.medico = "" THEN ErrMedicoVazio
    ELSE IF Len(a.medico) # 9 \/ ~isdigit(a.medico) THEN ErrMedicoFormato
    ELSE IF a.data = "" THEN ErrDataVazia
    ELSE IF ~verificar_formato_data(a.data, FormatoData) THEN ErrDataFormato
    ELSE IF After(Now, TimeRequest(a.data, a.hora)) THEN ErrPassado
    ELSE IF ~InHorario(StrpTime(a.hora)) THEN ErrHorario
    ELSE NoError

\* Mutant: cancela_consulta does not compare the instant with now.
ValidarCancela_sem_passado(a) ==
    IF a.paciente = "" THEN ErrPacienteVazio
    ELSE IF Len(a.paciente) # 11 \/ ~isdigit(a.paciente) THEN ErrPacienteFormato
    ELSE IF a.medico = "" THEN ErrMedicoVazio
    ELSE IF Len(a.medico) # 9 \/ ~isdigit(a.medico) THEN ErrMedicoFormato
    ELSE IF a.data = "" THEN ErrDataVazia
    ELSE IF ~verificar_formato_data(a.data, FormatoData) THEN ErrDataFormato
    ELSE IF a.hora = "" THEN ErrHoraVazia
    ELSE IF ~verificar_formato_data(a.hora, FormatoHora) THEN ErrHoraFormato
    ELSE IF ~InHorario(StrpTime(a.hora)) THEN ErrHorario
    ELSE NoError

\* cancela_consulta: the error its cascade ends with.
ValidarCancela(a) ==
    IF a.paciente = "" THEN ErrPacienteVazio
    ELSE IF Len(a.paciente) # 11 \/ ~isdigit(a.paciente) THEN ErrPacienteFormato
    ELSE IF a.medico = "" THEN ErrMedicoVazio
    ELSE IF Len(a.medico) # 9 \/ ~isdigit(a.medico) THEN ErrMedicoFormato
    ELSE IF a.data = "" THEN ErrDataVazia
    ELSE IF ~verificar_formato_data(a.data, FormatoData) THEN ErrDataFormato
    ELSE IF a.hora = "" THEN ErrHoraVazia
    ELSE IF ~verificar_formato_data(a.hora, FormatoHora) THEN ErrHoraFormato
    ELSE IF After(Now, TimeRequest(a.data, a.hora)) THEN ErrPassado
    ELSE IF ~InHorario(StrpTime(a.hora)) THEN ErrHorario
    ELSE NoError

(***************************************************************************)
(* gerar_horarios_disponiveis.  A datetime is [date, time]; the last date  *)
(* is 9999-12-31, and arithmetic that leaves the calendar raises           *)
(* OverflowError.                                                          *)
(***************************************************************************)
DateMax == ToOrdinal(9999, 12, 31)

\* a < b on datetimes
Before(a, b) == a.date < b.date \/ (a.date = b.date /\ a.time < b.time)

\* dt + timedelta(minutes=m): <<datetime>>, or <<>> for the OverflowError.
AddMinutes(dt, m) ==
    LET total == dt.time + 60 * m
        d == dt.date + (total \div 86400)
    IN  IF d > DateMax \/ d < 1 THEN <<>>
        ELSE <<[date |-> d, time |-> total % 86400]>>

\* The times of day the generator leaves out: 13:00 and 13:30.
Almoco == {13 * 3600, 13 * 3600 + 1800}

\* Mutant: the loop runs while inicio <= fim.
RECURSIVE Gerar_ate_fim(_, _, _, _)
Gerar_ate_fim(inicio, fim, intervalo_minutos, horarios) ==
    IF Before(fim, inicio) THEN <<horarios>>
    ELSE CHOOSE r \in
           {IF proximo = <<>> THEN <<>>
            ELSE Gerar_ate_fim(proximo[1], fim, intervalo_minutos,
                              IF inicio.time \notin Almoco
                              THEN Append(horarios, inicio) ELSE horarios) :
              proximo \in {AddMinutes(inicio, intervalo_minutos)}} : TRUE

gerar_horarios_ate_fim(inicio, fim, intervalo_minutos) ==
    Gerar_ate_fim(inicio, fim, intervalo_minutos, <<>>)

\* The while loop, from its test: <<horarios>> when it ends, <<>> when the
\* increment of inicio raises OverflowError.  proximo, the incremented
\* inicio, is bound as a value: the one element of a singleton.
RECURSIVE Gerar(_, _, _, _)
Gerar(inicio, fim, intervalo_minutos, horarios) ==
    IF ~Before(inicio, fim) THEN <<horarios>>
    ELSE CHOOSE r \in
           {IF proximo = <<>> THEN <<>>
            ELSE Gerar(proximo[1], fim, intervalo_minutos,
                      IF inicio.time \notin Almoco
                      THEN Append(horarios, inicio) ELSE horarios) :
              proximo \in {AddMinutes(inicio, intervalo_minutos)}} : TRUE

gerar_horarios_disponiveis(inicio, fim, intervalo_minutos) ==
    Gerar(inicio, fim, intervalo_minutos, <<>>)

(***************************************************************************)
(* The statements of the two transactions, as the queries they run.        *)
(***************************************************************************)
MsgClinica == "Clinica nao existente no sistema: "
MsgPaciente == "Paciente nao existente no sistema: "
MsgMedico == "Medico nao existente no sistema: "
MsgDiaDaSemana == "O medico nao da consultas na clinica no dia da semana: "
MsgMedicoOcupado == "O medico ja tem uma consulta no horario especificado: "
MsgPacienteOcupado == "O paciente ja tem uma consulta no horario especificado: "
MsgProprio == "O medico nao se pode consultar a si proprio."
MsgMarcou == "Marcou consulta: "
MsgCancelou == "Cancelou consulta: "
MsgNaoEncontrada == "Nao foi encontrada nenhuma consulta para os parametros especificados."
MsgUniqueViolation == "duplicate key value violates unique constraint"
MsgStoreError == "exception"

Response(status, message) == [status |-> status, message |-> message]

\* The rows of consulta a statement sees: the committed ones (READ COMMITTED;
\* a transaction writes once, after all its reads).
Rows == BagToSet(consulta)

\* The row the request names, with the column types of consulta.
RowOf(r) ==
    [ssn |-> r.paciente, nif |-> r.medico, nome |-> r.clinica,
     data |-> StrpDate(r.data), hora |-> StrpTime(r.hora)]

\* SELECT COUNT(*) FROM clinica WHERE nome = clinica
clinica_existe(r) == \E c \in clinica : c.nome = r.clinica

\* Mutant: the patient check counts the rows of the whole table.
paciente_existe_sem_filtro(r) == \E x \in paciente : TRUE

\* SELECT COUNT(*) FROM paciente WHERE ssn = paciente
paciente_existe(r) == \E x \in paciente : x.ssn = r.paciente

\* SELECT COUNT(*) FROM medico WHERE nif = medico
medico_existe(r) == \E m \in medico : m.nif = r.medico

\* Mutant: the affiliation check leaves out the weekday.
medico_na_clinica_sem_dia(r) ==
    \E t \in trabalha : t.nif = r.medico /\ t.nome = r.clinica

\* Mutant: the weekday is isoweekday(), 1 = Monday.
medico_na_clinica_isoweekday(r) ==
    \E t \in trabalha :
        /\ t.nif = r.medico
        /\ t.nome = r.clinica
        /\ t.dia_da_semana = Weekday(StrpDate(r.data)) + 1

\* SELECT COUNT(*) FROM trabalha WHERE nif, nome, dia_da_semana = weekday()
medico_na_clinica(r) ==
    \E t \in trabalha :
        /\ t.nif = r.medico
        /\ t.nome = r.clinica
        /\ t.dia_da_semana = Weekday(StrpDate(r.data))

\* Mutant: the doctor check filters on the patient column.
medico_tem_consulta_ssn(r) ==
    \E c \in Rows :
        c.ssn = r.medico /\ c.data = StrpDate(r.data) /\ c.hora = StrpTime(r.hora)

\* SELECT COUNT(*) FROM consulta WHERE nif = medico AND data AND hora
medico_tem_consulta(r) ==
    \E c \in Rows :
        c.nif = r.medico /\ c.data = StrpDate(r.data) /\ c.hora = StrpTime(r.hora)

\* Mutant: the patient check filters on the doctor column.
paciente_tem_consulta_nif(r) ==
    \E c \in Rows :
        c.nif = r.paciente /\ c.data = StrpDate(r.data) /\ c.hora = StrpTime(r.hora)

\* SELECT COUNT(*) FROM consulta WHERE ssn = paciente AND data AND hora
paciente_tem_consulta(r) ==
    \E c \in Rows :
        c.ssn = r.paciente /\ c.data = StrpDate(r.data) /\ c.hora = StrpTime(r.hora)

\* Mutant: the self check selects the patient's ssn.
paciente_nif_ssn(r) == (CHOOSE x \in paciente : x.ssn = r.paciente).ssn

\* SELECT nif FROM paciente WHERE ssn = paciente
paciente_nif(r) == (CHOOSE x \in paciente : x.ssn = r.paciente).nif

\* Mutant: the DELETE leaves out the clinic.
DeleteMatches_sem_nome(r, c) ==
    /\ c.ssn = r.paciente
    /\ c.nif = r.medico
    /\ c.data = StrpDate(r.data)
    /\ c.hora = StrpTime(r.hora)

\* Mutant: the DELETE leaves out the patient.
DeleteMatches_sem_ssn(r, c) ==
    /\ c.nif = r.medico
    /\ c.nome = r.clinica
    /\ c.data = StrpDate(r.data)
    /\ c.hora = StrpTime(r.hora)

\* DELETE FROM consulta WHERE ssn, nif, nome, data, hora: the rows it matches.
DeleteMatches(r, c) ==
    /\ c.ssn = r.paciente
    /\ c.nif = r.medico
    /\ c.nome = r.clinica
    /\ c.data = StrpDate(r.data)
    /\ c.hora = StrpTime(r.hora)

\* The rows the DELETE of request r removes, a sub-bag of consulta.
DeletedRows(r) ==
    [c \in {x \in Rows : DeleteMatches(r, x)} |-> CopiesIn(c, consulta)]

(***************************************************************************)
(* The store's side of a write: the uniqueness constraints of consulta on  *)
(* (nif, data, hora) and on (ssn, data, hora), and the wait of a write for *)
(* a concurrent transaction that holds a conflicting uncommitted write.    *)
(***************************************************************************)
SameKey(a, b) ==
    /\ a.data = b.data
    /\ a.hora = b.hora
    /\ (a.nif = b.nif \/ a.ssn = b.ssn)

\* Mutant: consulta declares no uniqueness constraint.
UniqueViolation_Absent(w) == FALSE

\* A committed row has a key of w: the INSERT of w raises UniqueViolation.
UniqueViolation(w) == \E c \in Rows : SameKey(c, w)

\* The rows other transactions have written and not yet committed.
Uncommitted(p) ==
    UNION {BagToSet(tx[q].ins) \cup BagToSet(tx[q].del) : q \in Procs \ {p}}

\* p's INSERT of w waits while another transaction holds a row with its key.
InsertWaits(p, w) == \E c \in Uncommitted(p) : SameKey(c, w)

\* p's DELETE waits while another transaction is deleting a row it matches.
DeleteWaits(p, r) ==
    \E q \in Procs \ {p} : \E c \in BagToSet(tx[q].del) : DeleteMatches(r, c)

(***************************************************************************)
(* The handlers, one action per statement.  A handler is "idle" between    *)
(* requests; inside its transaction pc names the statement it runs next.   *)
(***************************************************************************)
Ops == {"marca_consulta", "cancela_consulta"}

TxPcs == {"clinica", "paciente", "medico", "trabalha", "medico_consulta",
          "paciente_consulta", "paciente_nif", "insert", "delete", "commit"}

\* The handler moves on to its next statement.
Goto(p, label) ==
    /\ pc' = [pc EXCEPT ![p] = label]
    /\ UNCHANGED <<consulta, clock, req, tx, resp, others>>

\* The transaction block is left with nothing written (its commit changes
\* nothing) and the handler returns.
Return(p, status, message) ==
    /\ pc' = [pc EXCEPT ![p] = "idle"]
    /\ req' = [req EXCEPT ![p] = NoReq]
    /\ tx' = [tx EXCEPT ![p] = NoTx]
    /\ resp' = [resp EXCEPT ![p] = Response(status, message)]
    /\ UNCHANGED <<consulta, clock, others>>

\* Mutant: the clinic is looked up before the arguments are validated.
Receive_clinica_primeiro(p, op, a) ==
    /\ pc[p] = "idle"
    /\ LET error == IF op = "marca_consulta" THEN Validar(a)
                    ELSE ValidarCancela(a)
       IN  IF ~(\E c \in clinica : c.nome = a.clinica)
           THEN Return(p, 404, "Clinica nao existente no sistema: ")
           ELSE IF error # NoError
           THEN Return(p, 400, error)
           ELSE /\ pc' = [pc EXCEPT ![p] = "paciente"]
                /\ req' = [req EXCEPT ![p] =
                             [op |-> op, clinica |-> a.clinica,
                              paciente |-> a.paciente, medico |-> a.medico,
                              data |-> a.data, hora |-> a.hora]]
                /\ tx' = [tx EXCEPT ![p] = NoTx]
                /\ resp' = [resp EXCEPT ![p] = NoResp]
                /\ UNCHANGED <<consulta, clock, others>>

\* A request arrives: the arguments are validated before any store access.
Receive(p, op, a) ==
    /\ pc[p] = "idle"
    /\ LET error == IF op = "marca_consulta" THEN Validar(a)
                    ELSE ValidarCancela(a)
       IN  IF error # NoError
           THEN Return(p, 400, error)
           ELSE /\ pc' = [pc EXCEPT ![p] = "clinica"]
                /\ req' = [req EXCEPT ![p] =
                             [op |-> op, clinica |-> a.clinica,
                              paciente |-> a.paciente, medico |-> a.medico,
                              data |-> a.data, hora |-> a.hora]]
                /\ tx' = [tx EXCEPT ![p] = NoTx]
                /\ resp' = [resp EXCEPT ![p] = NoResp]
                /\ UNCHANGED <<consulta, clock, others>>

SelClinica(p) ==
    /\ pc[p] = "clinica"
    /\ IF clinica_existe(req[p])
       THEN Goto(p, "paciente")
       ELSE Return(p, 404, MsgClinica)

SelPaciente(p) ==
    /\ pc[p] = "paciente"
    /\ IF paciente_existe(req[p])
       THEN Goto(p, "medico")
       ELSE Return(p, 400, MsgPaciente)

SelMedico(p) ==
    /\ pc[p] = "medico"
    /\ IF medico_existe(req[p])
       THEN Goto(p, IF req[p].op = "marca_consulta" THEN "trabalha" ELSE "delete")
       ELSE Return(p, 400, MsgMedico)

SelTrabalha(p) ==
    /\ pc[p] = "trabalha"
    /\ IF medico_na_clinica(req[p])
       THEN Goto(p, "medico_consulta")
       ELSE Return(p, 400, MsgDiaDaSemana)

SelMedicoConsulta(p) ==
    /\ pc[p] = "medico_consulta"
    /\ IF ~medico_tem_consulta(req[p])
       THEN Goto(p, "paciente_consulta")
       ELSE Return(p, 400, MsgMedicoOcupado)

SelPacienteConsulta(p) ==
    /\ pc[p] = "paciente_consulta"
    /\ IF ~paciente_tem_consulta(req[p])
       THEN Goto(p, "paciente_nif")
       ELSE Return(p, 400, MsgPacienteOcupado)

SelPacienteNif(p) ==
    /\ pc[p] = "paciente_nif"
    /\ IF paciente_nif(req[p]) # req[p].medico
       THEN Goto(p, "insert")
       ELSE Return(p, 400, MsgProprio)

\* INSERT INTO consulta: the store raises UniqueViolation, which the handler's
\* except clause turns into a 500 after the transaction is rolled back.
Insert(p) ==
    /\ pc[p] = "insert"
    /\ ~InsertWaits(p, RowOf(req[p]))
    /\ IF UniqueViolation(RowOf(req[p]))
       THEN Return(p, 500, MsgUniqueViolation)
       ELSE /\ tx' = [tx EXCEPT ![p].ins = SetToBag({RowOf(req[p])})]
            /\ pc' = [pc EXCEPT ![p] = "commit"]
            /\ UNCHANGED <<consulta, clock, req, resp, others>>

\* DELETE FROM consulta, then the test of cur.rowcount.
Delete(p) ==
    /\ pc[p] = "delete"
    /\ ~DeleteWaits(p, req[p])
    /\ LET gone == DeletedRows(req[p])
       IN  IF BagCardinality(gone) > 0
           THEN /\ tx' = [tx EXCEPT ![p].del = gone]
                /\ pc' = [pc EXCEPT ![p] = "commit"]
                /\ UNCHANGED <<consulta, clock, req, resp, others>>
           ELSE Return(p, 400, MsgNaoEncontrada)

\* Mutant: the commit keeps the inserted rows and loses the deletions.
Commit_sem_delete(p) ==
    /\ pc[p] = "commit"
    /\ consulta' = consulta (+) tx[p].ins
    /\ pc' = [pc EXCEPT ![p] = "idle"]
    /\ req' = [req EXCEPT ![p] = NoReq]
    /\ tx' = [tx EXCEPT ![p] = NoTx]
    /\ resp' = [resp EXCEPT ![p] =
                  Response(200, IF req[p].op = "marca_consulta"
                                THEN "Marcou consulta: "
                                ELSE "Cancelou consulta: ")]
    /\ UNCHANGED <<clock, others>>

\* The transaction block is left after a write: COMMIT, and the handler
\* returns its success message.
Commit(p) ==
    /\ pc[p] = "commit"
    /\ consulta' = (consulta (-) tx[p].del) (+) tx[p].ins
    /\ pc' = [pc EXCEPT ![p] = "idle"]
    /\ req' = [req EXCEPT ![p] = NoReq]
    /\ tx' = [tx EXCEPT ![p] = NoTx]
    /\ resp' = [resp EXCEPT ![p] =
                  Response(200, IF req[p].op = "marca_consulta"
                                THEN MsgMarcou ELSE MsgCancelou)]
    /\ UNCHANGED <<clock, others>>

\* Mutant: the statements run outside a transaction block (autocommit), so
\* what was written before the failure stays.
StoreError_sem_rollback(p) ==
    /\ pc[p] \in TxPcs
    /\ consulta' = (consulta (-) tx[p].del) (+) tx[p].ins
    /\ pc' = [pc EXCEPT ![p] = "idle"]
    /\ req' = [req EXCEPT ![p] = NoReq]
    /\ tx' = [tx EXCEPT ![p] = NoTx]
    /\ resp' = [resp EXCEPT ![p] = Response(500, MsgStoreError)]
    /\ UNCHANGED <<clock, others>>

\* Any statement of the transaction (the commit too) may raise: the
\* transaction is rolled back and the except clause returns a 500.
StoreError(p) ==
    /\ pc[p] \in TxPcs
    /\ Return(p, 500, MsgStoreError)

\* The statements of the transaction, each running to its end.
Statement(p) ==
    \/ SelClinica(p)
    \/ SelPaciente(p)
    \/ SelMedico(p)
    \/ SelTrabalha(p)
    \/ SelMedicoConsulta(p)
    \/ SelPacienteConsulta(p)
    \/ SelPacienteNif(p)
    \/ Insert(p)
    \/ Delete(p)
    \/ Commit(p)

Step(p) ==
    \/ Statement(p)
    \/ StoreError(p)

\* One handler serving requests one after the other, any arguments.
Next ==
    \/ \E op \in Ops, a \in Args : Receive(1, op, a)
    \/ Step(1)

Spec == Init /\ [][Next]_vars

\* Concurrent handlers; the arguments are those that pass validation and
\* name existing clinics, patients and doctors, so that every request
\* reaches the statements on consulta.
ConcArgs ==
    [clinica : {"A", "B"}, paciente : {"12345678901", "22345678901"},
     medico : {"123456789", "223456789"}, data : {"2024-06-10"},
     hora : {"09:00:00"}]

NextConc ==
    \E p \in Procs :
        \/ \E op \in Ops, a \in ConcArgs : Receive(p, op, a)
        \/ Step(p)

SpecConc == Init /\ [][NextConc]_vars

(***************************************************************************)
(* One request, with any arguments at any of a few clocks: the validation  *)
(* of the handlers on absent, malformed and out-of-range arguments.  The   *)
(* request has arrived for handler 1, which serves it.                     *)
(***************************************************************************)
\* The handler takes the request that has arrived for it.
Atende(p) ==
    /\ req[p] # NoReq
    /\ Receive(p, req[p].op, req[p])

Pedido(op, a) ==
    [op |-> op, clinica |-> a.clinica, paciente |-> a.paciente,
     medico |-> a.medico, data |-> a.data, hora |-> a.hora]

ValArgs ==
    [clinica : ValClinica, paciente : ValPaciente, medico : ValMedico,
     data : ValData, hora : ValHora]

\* A Wednesday morning; a Monday before opening (now + 1h is 08:30); a
\* Sunday night (now + 1h is Monday 00:30).
ValClocks ==
    {[date |-> ToOrdinal(2024, 6, 5), time |-> 10 * 3600],
     [date |-> ToOrdinal(2024, 6, 10), time |-> 7 * 3600 + 1800],
     [date |-> ToOrdinal(2024, 6, 9), time |-> 23 * 3600 + 1800]}

\* The table consulta: empty, or with an appointment on Monday 2024-06-10
\* and one on Monday 2024-06-03, both at 12:30.
ValStores ==
    {EmptyBag,
     SetToBag({[ssn |-> "12345678901", nif |-> "123456789", nome |-> "A",
                data |-> ToOrdinal(2024, 6, d), hora |-> 12 * 3600 + 1800]
               : d \in {3, 10}})}

InitVal ==
    /\ clock \in ValClocks
    /\ consulta \in ValStores
    /\ \E op \in Ops, a \in ValArgs :
          /\ req = [p \in Procs |-> IF p = 1 THEN Pedido(op, a) ELSE NoReq]
          /\ cenario = [n |-> 1, pedido |-> Pedido(op, a), antes |-> consulta]
    /\ pc = [p \in Procs |-> "idle"]
    /\ tx = [p \in Procs |-> NoTx]
    /\ resp = [p \in Procs |-> NoResp]
    /\ lista = ListaIdle
    /\ gerar = GerarIdle

NextVal ==
    \/ Atende(1)
    \/ Step(1)

SpecVal == InitVal /\ [][NextVal]_vars

(***************************************************************************)
(* A call of gerar_horarios_disponiveis with any start, end and interval:  *)
(* instants of a day of June 2024, on and off the half hours, and of the   *)
(* night after it; instants of the last day of the calendar.               *)
(***************************************************************************)
GerarTimes ==
    {8 * 3600, 12 * 3600, 12 * 3600 + 2700, 13 * 3600, 13 * 3600 + 30,
     14 * 3600, 19 * 3600}

GerarInstants == [date : {ToOrdinal(2024, 6, 10)}, time : GerarTimes]

GerarNightInstants ==
    {[date |-> ToOrdinal(2024, 6, 10), time |-> 19 * 3600],
     [date |-> ToOrdinal(2024, 6, 10), time |-> 23 * 3600],
     [date |-> ToOrdinal(2024, 6, 11), time |-> 1800]}

GerarLastInstants ==
    [date : {DateMax}, time : {19 * 3600, 22 * 3600, 23 * 3600,
                               23 * 3600 + 1800}]

GerarIntervalos == {30, 45, 60, 1440}

InitGerar ==
    /\ consulta = EmptyBag
    /\ clock = [date |-> ToOrdinal(2024, 6, 5), time |-> 10 * 3600]
    /\ pc = [p \in Procs |-> "idle"]
    /\ req = [p \in Procs |-> NoReq]
    /\ tx = [p \in Procs |-> NoTx]
    /\ resp = [p \in Procs |-> NoResp]
    /\ lista = ListaIdle
    /\ cenario = CenarioIdle
    /\ \E se \in (GerarInstants \X GerarInstants)
                     \cup (GerarNightInstants \X GerarNightInstants)
                     \cup (GerarLastInstants \X GerarLastInstants),
           m \in GerarIntervalos :
          gerar = [pc |-> "call", inicio |-> se[1], fim |-> se[2],
                   intervalo_minutos |-> m, horarios |-> <<>>]

\* The call runs to its return, or to the exception it raises.
GerarReturn ==
    /\ gerar.pc = "call"
    /\ LET r == gerar_horarios_disponiveis(gerar.inicio, gerar.fim,
                                           gerar.intervalo_minutos)
       IN  gerar' = IF r = <<>> THEN [gerar EXCEPT !.pc = "OverflowError"]
                    ELSE [gerar EXCEPT !.pc = "done", !.horarios = r[1]]
    /\ UNCHANGED <<consulta, clock, pc, req, tx, resp, lista, cenario>>

NextGerar == GerarReturn

SpecGerar == InitGerar /\ [][NextGerar]_vars

(***************************************************************************)
(* The availability resolver, lista_medicos_clinica_especialidade: the     *)
(* handler's local variables are the fields of lista, and each action is   *)
(* one of its statements.  It only reads the store.  An exception is not   *)
(* caught by the handler: the request is answered 500.                     *)
(***************************************************************************)
IntervaloMinutos == 30
inicio_horario == 8 * 3600
fim_horario == 19 * 3600

MsgListaClinica == "Clínica não existente no sistema: "
MsgEspecialidade == "Especialidade não existente na "
MsgErro == "Internal Server Error"

\* date.isoformat() and time.isoformat() of a time without microseconds.
Pad2(n) ==
    SubSeq("0123456789", (n \div 10) + 1, (n \div 10) + 1)
      \o SubSeq("0123456789", (n % 10) + 1, (n % 10) + 1)

\* The year, month and day of an ordinal, as datetime computes them.
FromOrdinal(ord) ==
    LET n0 == ord - 1
        n400 == n0 \div 146097
        r400 == n0 % 146097
        n100 == r400 \div 36524
        r100 == r400 % 36524
        n4 == r100 \div 1461
        r4 == r100 % 1461
        n1 == r4 \div 365
        r1 == r4 % 365
        year == n400 * 400 + 1 + n100 * 100 + n4 * 4 + n1
    IN  IF n1 = 4 \/ n100 = 4 THEN <<year - 1, 12, 31>>
        ELSE CHOOSE ymd \in {<<year, m, r1 - DaysBeforeMonth(year, m) + 1>> :
                                 m \in 1..12} :
                 ymd[3] >= 1 /\ ymd[3] <= DaysInMonth(year, ymd[2])

isoformat_date(ord) ==
    LET ymd == FromOrdinal(ord)
    IN  Pad2(ymd[1] \div 100) \o Pad2(ymd[1] % 100) \o "-" \o Pad2(ymd[2])
          \o "-" \o Pad2(ymd[3])

isoformat_time(t) ==
    Pad2(t \div 3600) \o ":" \o Pad2((t % 3600) \div 60) \o ":" \o Pad2(t % 60)

\* Mutant: every clinic name is taken to exist.
lista_clinica_existe_sempre(nome) == TRUE

\* SELECT COUNT(*) FROM clinica WHERE nome = clinica; ... > 0
lista_clinica_existe(nome) == \E c \in clinica : c.nome = nome

\* SELECT DISTINCT m.nif, m.nome FROM medico m JOIN trabalha t JOIN clinica c
\* WHERE c.nome = clinica AND m.especialidade = especialidade
medicos_da_clinica(nome, especialidade) ==
    {[nif |-> m.nif, nome |-> m.nome] :
        m \in {x \in medico :
                 /\ x.especialidade = especialidade
                 /\ \E t \in trabalha, c \in clinica :
                        x.nif = t.nif /\ t.nome = c.nome /\ c.nome = nome}}

\* fetchall() of a query without ORDER BY: the rows in any order.
Ordens(S) ==
    {s \in [1..Cardinality(S) -> S] : \A i, j \in DOMAIN s : i # j => s[i] # s[j]}

\* Mutant: the doctor's weekdays at any clinic.
dias_do_medico_qualquer_clinica(nif, nome) ==
    {t.dia_da_semana : t \in {x \in trabalha : x.nif = nif}}

\* SELECT dia_da_semana FROM trabalha WHERE nif = nif AND nome = clinica
dias_do_medico(nif, nome) ==
    {t.dia_da_semana : t \in {x \in trabalha : x.nif = nif /\ x.nome = nome}}

\* ORDER BY data, hora
RECURSIVE OrderBy(_)
OrderBy(S) ==
    IF S = {} THEN <<>>
    ELSE LET first == CHOOSE r \in S : \A q \in S :
                          r.data < q.data \/ (r.data = q.data /\ r.hora <= q.hora)
         IN  <<first>> \o OrderBy(S \ {first})

\* Mutant: the doctor's appointments at the requested clinic only.
consultas_do_medico_na_clinica(nif, now) ==
    OrderBy({[data |-> r.data, hora |-> r.hora] :
               r \in {x \in BagToSet(consulta) :
                        /\ x.nif = nif
                        /\ x.nome = lista.clinica
                        /\ (x.data > now.date
                            \/ (x.data = now.date /\ x.hora > now.time))}})

\* SELECT data, hora FROM consulta WHERE nif = nif AND (data > now::date OR
\* (data = now::date AND hora > now::time)) ORDER BY data, hora
consultas_do_medico(nif, now) ==
    OrderBy({[data |-> r.data, hora |-> r.hora] :
               r \in {x \in BagToSet(consulta) :
                        /\ x.nif = nif
                        /\ (x.data > now.date
                            \/ (x.data = now.date /\ x.hora > now.time))}})

\* horario > now and all(horario != combine(c.data, c.hora) for c in
\* consultas_existentes)
Disponivel(horario) ==
    /\ Before(lista.now, horario)
    /\ \A i \in 1..Len(lista.consultas_existentes) :
          horario # [date |-> lista.consultas_existentes[i].data,
                     time |-> lista.consultas_existentes[i].hora]

\* Mutant: of the day's free slots, the last ones are taken.
Preenche_ultimos(horarios_disponiveis, horarios_possiveis) ==
    LET livres == SelectSeq(horarios_possiveis, Disponivel)
        n == IF Len(livres) < 3 - Len(horarios_disponiveis)
             THEN Len(livres) ELSE 3 - Len(horarios_disponiveis)
    IN  horarios_disponiveis \o SubSeq(livres, Len(livres) - n + 1, Len(livres))

\* The for loop over the day's slots: the free ones are appended in order
\* until the list has 3.
Preenche(horarios_disponiveis, horarios_possiveis) ==
    LET livres == SelectSeq(horarios_possiveis, Disponivel)
        n == IF Len(livres) < 3 - Len(horarios_disponiveis)
             THEN Len(livres) ELSE 3 - Len(horarios_disponiveis)
    IN  horarios_disponiveis \o SubSeq(livres, 1, n)

\* Mutant: after the last day of the calendar the scan starts the week
\* again.
ProximoDia_sem_fim(data_atual) ==
    <<IF data_atual >= DateMax THEN DateMax - 6 ELSE data_atual + 1>>

\* data_atual + timedelta(days=1): <<date>>, or <<>> for the OverflowError.
ProximoDia(data_atual) ==
    IF data_atual >= DateMax THEN <<>> ELSE <<data_atual + 1>>

\* The handler ends with a response; its local variables stay as they were.
ListaResponde(status, message) ==
    lista' = [lista EXCEPT !.pc = "done", !.resp = Response(status, message)]

ListaFrame == UNCHANGED <<consulta, clock, pc, req, tx, resp, gerar, cenario>>

\* GET /c/<clinica>/<especialidade>/: now = datetime.now() + timedelta(hours=1)
ListaReceive(nome, especialidade) ==
    /\ lista.pc = "idle"
    /\ LET now == AddMinutes(clock, 60)
       IN  IF now = <<>> THEN ListaResponde(500, MsgErro)
           ELSE lista' = [lista EXCEPT !.pc = "clinica", !.clinica = nome,
                                       !.especialidade = especialidade,
                                       !.now = now[1]]
    /\ ListaFrame

\* The query on clinica, and the 404 of an unknown clinic.
ListaClinica ==
    /\ lista.pc = "clinica"
    /\ IF lista_clinica_existe(lista.clinica)
       THEN lista' = [lista EXCEPT !.pc = "medicos"]
       ELSE ListaResponde(404, MsgListaClinica \o lista.clinica)
    /\ ListaFrame

\* The query on the doctors, and the 404 of a clinic without a doctor of
\* the specialty; otherwise the for loop starts with the first row.
ListaMedicos ==
    /\ lista.pc = "medicos"
    /\ LET rows == medicos_da_clinica(lista.clinica, lista.especialidade)
       IN  IF rows = {}
           THEN ListaResponde(404, MsgEspecialidade \o lista.clinica \o ": "
                                     \o lista.especialidade)
           ELSE \E medicos \in Ordens(rows) :
                   lista' = [lista EXCEPT !.pc = "dias",
                                          !.medico = Head(medicos),
                                          !.medicos = Tail(medicos)]
    /\ ListaFrame

\* The query on the doctor's weekdays at the clinic.
ListaDias ==
    /\ lista.pc = "dias"
    /\ lista' = [lista EXCEPT
                   !.pc = "consultas",
                   !.dias_da_semana = dias_do_medico(lista.medico.nif,
                                                     lista.clinica)]
    /\ ListaFrame

\* The query on the doctor's appointments after now; the scan starts at
\* now's date with no slot.
ListaConsultas ==
    /\ lista.pc = "consultas"
    /\ lista' = [lista EXCEPT
                   !.pc = "while",
                   !.consultas_existentes = consultas_do_medico(lista.medico.nif,
                                                                lista.now),
                   !.horarios_disponiveis = <<>>,
                   !.data_atual = lista.now.date]
    /\ ListaFrame

\* One iteration of the while loop: the slots of data_atual if it is a
\* working weekday, then the next day.
ListaScan ==
    /\ lista.pc = "while"
    /\ Len(lista.horarios_disponiveis) < 3
    /\ \E horarios_possiveis \in
              {IF Weekday(lista.data_atual) \in lista.dias_da_semana
               THEN gerar_horarios_disponiveis(
                        [date |-> lista.data_atual, time |-> inicio_horario],
                        [date |-> lista.data_atual, time |-> fim_horario],
                        IntervaloMinutos)
               ELSE <<(<<>>)>>},
          proximo \in {ProximoDia(lista.data_atual)} :
          IF horarios_possiveis = <<>> \/ proximo = <<>>
          THEN ListaResponde(500, MsgErro)
          ELSE lista' = [lista EXCEPT
                           !.horarios_disponiveis =
                               Preenche(lista.horarios_disponiveis,
                                        horarios_possiveis[1]),
                           !.data_atual = proximo[1]]
    /\ ListaFrame

\* resultado.append(...) after the while loop, then the next doctor or the
\* end of the for loop.
ListaAppend ==
    /\ lista.pc = "while"
    /\ Len(lista.horarios_disponiveis) >= 3
    /\ LET h == lista.horarios_disponiveis
           entrada ==
               [medico |-> lista.medico.nome \o " (" \o lista.medico.nif \o ")",
                horarios_disponiveis |->
                    [i \in 1..Len(h) |-> <<isoformat_date(h[i].date),
                                           isoformat_time(h[i].time)>>]]
       IN  lista' = [lista EXCEPT
                       !.resultado = Append(lista.resultado, entrada),
                       !.pc = IF lista.medicos = <<>> THEN "return" ELSE "dias",
                       !.medico = IF lista.medicos = <<>> THEN lista.medico
                                  ELSE Head(lista.medicos),
                       !.medicos = IF lista.medicos = <<>> THEN <<>>
                                   ELSE Tail(lista.medicos)]
    /\ ListaFrame

\* return message: jsonify(resultado), status 200.
ListaReturn ==
    /\ lista.pc = "return"
    /\ ListaResponde(200, "")
    /\ ListaFrame

(***************************************************************************)
(* The resolver alone, on a store and at a clock that do not change while  *)
(* it runs: clocks of June 2024 before, on and after the slots of a        *)
(* Monday, and clocks of the last week of the calendar; stores with        *)
(* appointments on and off the slots.  The doctor without a weekday is     *)
(* asked for in the last week of the calendar only, where the scan is a    *)
(* few days long and not the 2.9 million days from 2024.                   *)
(***************************************************************************)
ListaClocks ==
    {[date |-> ToOrdinal(2024, 6, 5), time |-> 10 * 3600],
     [date |-> ToOrdinal(2024, 6, 9), time |-> 23 * 3600 + 1800],
     [date |-> ToOrdinal(2024, 6, 10), time |-> 7 * 3600 + 2700],
     [date |-> ToOrdinal(2024, 6, 10), time |-> 8 * 3600],
     [date |-> ToOrdinal(2024, 6, 10), time |-> 11 * 3600 + 1200],
     [date |-> ToOrdinal(2024, 6, 10), time |-> 17 * 3600 + 1200]}

ListaLastClocks ==
    {[date |-> ToOrdinal(9999, 12, 27), time |-> 10 * 3600],
     [date |-> ToOrdinal(9999, 12, 29), time |-> 10 * 3600],
     [date |-> ToOrdinal(9999, 12, 30), time |-> 18 * 3600],
     [date |-> DateMax, time |-> 23 * 3600 + 1800]}

Marcada(ssn, nif, nome, d, hora) ==
    [ssn |-> ssn, nif |-> nif, nome |-> nome, data |-> ToOrdinal(2024, 6, d),
     hora |-> hora]

ListaStores ==
    {EmptyBag,
     SetToBag({Marcada("12345678901", "123456789", "A", 10, 9 * 3600 + 1800),
               Marcada("22345678901", "123456789", "A", 10, 10 * 3600),
               Marcada("12345678901", "123456789", "A", 10, 18 * 3600 + 1800),
               Marcada("12345678901", "123456789", "A", 17, 8 * 3600),
               Marcada("12345678901", "223456789", "B", 10, 9 * 3600)}),
     SetToBag({Marcada("12345678901", "123456789", "A", 3, 9 * 3600),
               Marcada("12345678901", "123456789", "A", 10, 9 * 3600 + 900),
               Marcada("12345678901", "323456789", "B", 11, 8 * 3600),
               Marcada("22345678901", "323456789", "A", 11, 8 * 3600 + 1800),
               Marcada("12345678901", "323456789", "A", 12, 9 * 3600)})}

\* The requests that may arrive at the present clock: a clinic and a
\* specialty, known or not.
ListaPedidos ==
    {q \in {"A", "B", "X"}
             \X {"Cardiologia", "Ortopedia", "Pediatria", "Neurologia"} :
        q[2] = "Pediatria" => clock \in ListaLastClocks}

InitLista ==
    /\ consulta \in ListaStores
    /\ clock \in ListaClocks \cup ListaLastClocks
    /\ Rest

NextLista ==
    \/ \E q \in ListaPedidos : ListaReceive(q[1], q[2])
    \/ ListaClinica
    \/ ListaMedicos
    \/ ListaDias
    \/ ListaConsultas
    \/ ListaScan
    \/ ListaAppend
    \/ ListaReturn

SpecLista == InitLista /\ [][NextLista]_vars

\* The handler is a sequential function: it takes its next statement.
SpecListaFair == SpecLista /\ WF_vars(NextLista)

(***************************************************************************)
(* A client of the resolver books a slot of the list it was given, at the  *)
(* same clock and on the same store: the requested clinic, the doctor id   *)
(* between the brackets of an entry's label, the two strings of one of the *)
(* entry's pairs, and a patient of the table.                              *)
(***************************************************************************)
Reserva ==
    /\ lista.pc = "done"
    /\ lista.resp.status = 200
    /\ cenario.n = 0
    /\ pc[1] = "idle"
    /\ req[1] = NoReq
    /\ \E i \in 1..Len(lista.resultado), x \in paciente :
          \E j \in 1..Len(lista.resultado[i].horarios_disponiveis) :
             \E r \in {Pedido("marca_consulta",
                         [clinica |-> lista.clinica,
                          paciente |-> x.ssn,
                          medico |-> SubSeq(lista.resultado[i].medico,
                                            Len(lista.resultado[i].medico) - 9,
                                            Len(lista.resultado[i].medico) - 1),
                          data |-> lista.resultado[i].horarios_disponiveis[j][1],
                          hora |-> lista.resultado[i].horarios_disponiveis[j][2]])} :
                /\ req' = [req EXCEPT ![1] = r]
                /\ cenario' = [cenario EXCEPT !.n = 1, !.pedido = r]
    /\ UNCHANGED <<consulta, clock, pc, tx, resp, lista, gerar>>

\* The resolver, the client, and the statements of marca_consulta.
NextReserva ==
    \/ NextLista
    \/ Reserva
    \/ Atende(1)
    \/ SelClinica(1)
    \/ SelPaciente(1)
    \/ SelMedico(1)
    \/ SelTrabalha(1)
    \/ SelMedicoConsulta(1)
    \/ SelPacienteConsulta(1)
    \/ SelPacienteNif(1)
    \/ Insert(1)
    \/ Commit(1)

SpecReserva == InitLista /\ [][NextReserva]_vars

(***************************************************************************)
(* Requests to book and to cancel, one after the other, while time passes  *)
(* between them: an appointment that was booked ahead becomes a past one.  *)
(* A handler reads datetime.now() once, so the clock stands while a        *)
(* request is served.                                                      *)
(***************************************************************************)
\* Known and unknown clinics, patients and doctors; a Monday and the
\* Tuesday after it; the opening time and the start of the lunch break.
TempoArgs ==
    [clinica : {"A", "X"},
     paciente : {"12345678901", "22345678901", "99999999999"},
     medico : {"123456789", "323456789", "999999999"},
     data : {"2024-06-10", "2024-06-11"},
     hora : {"08:00:00", "13:00:00"}]

\* The readings of datetime.now(): the Wednesday the service starts on; the
\* Monday after, when now + 1h is 08:00:00, and half an hour later; the
\* Wednesday after that.
Tempos ==
    {[date |-> ToOrdinal(2024, 6, 5), time |-> 10 * 3600],
     [date |-> ToOrdinal(2024, 6, 10), time |-> 7 * 3600],
     [date |-> ToOrdinal(2024, 6, 10), time |-> 7 * 3600 + 1800],
     [date |-> ToOrdinal(2024, 6, 12), time |-> 10 * 3600]}

\* A request arrives for the idle handler; the client remembers it.
Chega ==
    /\ pc[1] = "idle"
    /\ req[1] = NoReq
    /\ \E op \in Ops, a \in TempoArgs :
          /\ req' = [req EXCEPT ![1] = Pedido(op, a)]
          /\ cenario' = [cenario EXCEPT !.pedido = Pedido(op, a)]
    /\ UNCHANGED <<consulta, clock, pc, tx, resp, lista, gerar>>

\* Time passes between two requests.
Passa ==
    /\ pc[1] = "idle"
    /\ req[1] = NoReq
    /\ \E t \in Tempos :
          /\ After(t, clock)
          /\ clock' = t
    /\ UNCHANGED <<consulta, pc, req, tx, resp, lista, gerar, cenario>>

NextTempo ==
    \/ Chega
    \/ Passa
    \/ Atende(1)
    \/ Step(1)

SpecTempo == Init /\ [][NextTempo]_vars

(***************************************************************************)
(* The end-to-end scenario: a client sends book, book, cancel, cancel with *)
(* the same arguments, each request after the answer to the one before,    *)
(* and no statement fails unexpectedly.                                    *)
(***************************************************************************)
Script == <<"marca_consulta", "marca_consulta",
            "cancela_consulta", "cancela_consulta">>

\* The table consulta when the scenario starts: empty; the second patient
\* with the second doctor at the scenario's instant; the first patient with
\* the first doctor at another time of that day.
CenarioStores ==
    {EmptyBag,
     SetToBag({[ssn |-> "22345678901", nif |-> "223456789", nome |-> "B",
                data |-> ToOrdinal(2024, 6, 10), hora |-> 9 * 3600]}),
     SetToBag({[ssn |-> "12345678901", nif |-> "123456789", nome |-> "A",
                data |-> ToOrdinal(2024, 6, 10), hora |-> 12 * 3600 + 1800]})}

InitCenario ==
    /\ clock = [date |-> ToOrdinal(2024, 6, 5), time |-> 10 * 3600]
    /\ consulta \in CenarioStores
    /\ \E a \in ConcArgs :
          cenario = [n |-> 0, pedido |-> Pedido(Script[1], a),
                     antes |-> consulta]
    /\ pc = [p \in Procs |-> "idle"]
    /\ req = [p \in Procs |-> NoReq]
    /\ tx = [p \in Procs |-> NoTx]
    /\ resp = [p \in Procs |-> NoResp]
    /\ lista = ListaIdle
    /\ gerar = GerarIdle

\* The client has the answer to its last request and sends the next one.
Envia ==
    /\ cenario.n < Len(Script)
    /\ pc[1] = "idle"
    /\ req[1] = NoReq
    /\ LET r == [cenario.pedido EXCEPT !.op = Script[cenario.n + 1]]
       IN  /\ req' = [req EXCEPT ![1] = r]
           /\ cenario' = [cenario EXCEPT !.n = @ + 1, !.pedido = r]
    /\ UNCHANGED <<consulta, clock, pc, tx, resp, lista, gerar>>

NextCenario ==
    \/ Envia
    \/ Atende(1)
    \/ Statement(1)

SpecCenario == InitCenario /\ [][NextCenario]_vars

(***************************************************************************)
(* Vocabulary of the properties, stated on the tables and the rows, not on *)
(* the handlers' queries.                                                  *)
(***************************************************************************)
Book == "marca_consulta"
Cancel == "cancela_consulta"

\* Handler p returns in this step.
Returns(p) == pc[p] # "idle" /\ pc'[p] = "idle"

\* Handler p runs a statement in this step.
Steps(p) == pc[p] # "idle" /\ pc'[p] # pc[p]

StoreFailure == Response(500, MsgStoreError)

\* A committed appointment of r's doctor at r's date and time.
DoctorSlotTaken(r) ==
    \E c \in BagToSet(consulta) :
        c.nif = r.medico /\ c.data = StrpDate(r.data) /\ c.hora = StrpTime(r.hora)

\* A committed appointment of r's patient at r's date and time.
PatientSlotTaken(r) ==
    \E c \in BagToSet(consulta) :
        c.ssn = r.paciente /\ c.data = StrpDate(r.data) /\ c.hora = StrpTime(r.hora)

\* The committed appointments that equal r on all five fields.
ExactMatches(r) ==
    {c \in BagToSet(consulta) :
        c = [ssn |-> r.paciente, nif |-> r.medico, nome |-> r.clinica,
             data |-> StrpDate(r.data), hora |-> StrpTime(r.hora)]}

KnownClinic(r) == r.clinica \in {c.nome : c \in clinica}
KnownPatient(r) == r.paciente \in {x.ssn : x \in paciente}
KnownDoctor(r) == r.medico \in {m.nif : m \in medico}
Affiliated(r) ==
    [nif |-> r.medico, nome |-> r.clinica,
     dia_da_semana |-> Weekday(StrpDate(r.data))] \in trabalha
OwnDoctor(r) == [ssn |-> r.paciente, nif |-> r.medico] \in paciente

(***************************************************************************)
(* C1.  Under any interleaving of concurrent book requests, the committed  *)
(* table never holds two appointments with the same (doctor, date, time):  *)
(* two bookings that both passed the doctor check never both insert.       *)
(***************************************************************************)
C1_DoctorSlotUnique ==
    \A c \in BagToSet(consulta) :
        /\ CopiesIn(c, consulta) = 1
        /\ \A d \in BagToSet(consulta) :
              (d.nif = c.nif /\ d.data = c.data /\ d.hora = c.hora) => d = c

\* Two book requests for one doctor and instant have both passed the doctor
\* check; one has inserted, the other is about to.
C1_Witness ==
    \E p, q \in Procs :
        /\ p # q
        /\ pc[p] = "commit" /\ req[p].op = Book
        /\ pc[q] = "insert"
        /\ req[q].medico = req[p].medico
        /\ req[q].data = req[p].data
        /\ req[q].hora = req[p].hora

(***************************************************************************)
(* C2.  Requests served one after the other: a book request with valid     *)
(* parameters (clinic, patient and doctor exist, the doctor works there    *)
(* that weekday, the patient is not the doctor's own) succeeds when the    *)
(* doctor's (date, time) is free, leaving exactly one appointment for that *)
(* slot; booking the same (doctor, date, time) again is answered 400       *)
(* 'doctor already booked' and the table is unchanged, still holding       *)
(* exactly one appointment for the slot.  (A store failure answers 500.)   *)
(***************************************************************************)
OneForSlot(r, b) ==
    /\ Cardinality({c \in BagToSet(b) :
            c.nif = r.medico /\ c.data = StrpDate(r.data)
                             /\ c.hora = StrpTime(r.hora)}) = 1
    /\ \A c \in BagToSet(b) :
            (c.nif = r.medico /\ c.data = StrpDate(r.data)
                              /\ c.hora = StrpTime(r.hora)) => CopiesIn(c, b) = 1

OtherwiseValid(r) ==
    /\ KnownClinic(r) /\ KnownPatient(r) /\ KnownDoctor(r)
    /\ Affiliated(r)
    /\ ~OwnDoctor(r)

C2_SecondBookingRejected ==
    [][ (req[1].op = Book /\ OtherwiseValid(req[1]) /\ Returns(1))
        => IF DoctorSlotTaken(req[1])
           THEN /\ resp'[1] \in {Response(400, MsgMedicoOcupado), StoreFailure}
                /\ consulta' = consulta
                /\ OneForSlot(req[1], consulta')
           ELSE PatientSlotTaken(req[1])
                \/ resp'[1] = StoreFailure
                \/ /\ resp'[1] = Response(200, MsgMarcou)
                   /\ OneForSlot(req[1], consulta') ]_vars

\* The second booking was refused; the first one's appointment is there.
C2_Witness ==
    /\ resp[1] = Response(400, MsgMedicoOcupado)
    /\ BagCardinality(consulta) = 1

(***************************************************************************)
(* C3, as stated.  (patient, date, time) is unique among appointments, and *)
(* a book request for a patient who holds an appointment at that date and  *)
(* time is answered 'patient already booked' and inserts nothing.          *)
(***************************************************************************)
PatientSlotUnique(b) ==
    \A c \in BagToSet(b) :
        /\ CopiesIn(c, b) = 1
        /\ \A d \in BagToSet(b) :
              (d.ssn = c.ssn /\ d.data = c.data /\ d.hora = c.hora) => d = c

C3_AsStated ==
    [][ /\ PatientSlotUnique(consulta')
        /\ \A p \in Procs :
              (req[p].op = Book /\ PatientSlotTaken(req[p]) /\ Returns(p))
              => /\ resp'[p] \in {Response(400, MsgPacienteOcupado), StoreFailure}
                 /\ consulta' = consulta ]_vars

(***************************************************************************)
(* C3, amended.  (patient, date, time) is unique among appointments under  *)
(* any interleaving of book and cancel requests; a book request for a      *)
(* patient who holds an appointment at that date and time never succeeds   *)
(* and inserts nothing, and when it reaches the patient check (checks 1-5  *)
(* passed) it is answered 400 'patient already booked' (or 500 on a store  *)
(* failure).                                                               *)
(***************************************************************************)
C3_PatientSlotUnique ==
    [][ /\ PatientSlotUnique(consulta')
        /\ \A p \in Procs :
              /\ (req[p].op = Book /\ PatientSlotTaken(req[p]) /\ Returns(p))
                 => /\ resp'[p].status # 200
                    /\ consulta' = consulta
              /\ (pc[p] = "paciente_consulta" /\ PatientSlotTaken(req[p])
                    /\ Steps(p))
                 => /\ resp'[p] \in {Response(400, MsgPacienteOcupado),
                                     StoreFailure}
                    /\ pc'[p] = "idle"
                    /\ consulta' = consulta ]_vars

\* A request was refused for its patient's appointment with another doctor.
C3_Witness ==
    \E p \in Procs :
        /\ resp[p] = Response(400, MsgPacienteOcupado)
        /\ BagCardinality(consulta) = 1

(***************************************************************************)
(* C4.  A book request whose INSERT the store rejects for a uniqueness     *)
(* constraint, a concurrent booking having taken the slot after the        *)
(* request's checks passed, is answered with the 400 'already booked'      *)
(* error, not with a raw store failure.                                    *)
(***************************************************************************)
C4_ViolationAnsweredAsConflict ==
    [][ \A p \in Procs :
          (pc[p] = "insert" /\ Returns(p) /\ resp'[p] # StoreFailure
             /\ (DoctorSlotTaken(req[p]) \/ PatientSlotTaken(req[p])))
          => resp'[p] \in {Response(400, MsgMedicoOcupado),
                           Response(400, MsgPacienteOcupado)} ]_vars

(***************************************************************************)
(* C5.  A book request that passed validation is answered by the first     *)
(* failing check in the order clinic, patient, doctor, affiliation on the  *)
(* date's weekday, doctor slot, patient slot, own doctor (404 for the      *)
(* clinic, 400 for the others), and with 200 only when all seven hold; a   *)
(* store failure answers 500.                                              *)
(***************************************************************************)
ExpectedBook(r) ==
    IF ~KnownClinic(r) THEN Response(404, MsgClinica)
    ELSE IF ~KnownPatient(r) THEN Response(400, MsgPaciente)
    ELSE IF ~KnownDoctor(r) THEN Response(400, MsgMedico)
    ELSE IF ~Affiliated(r) THEN Response(400, MsgDiaDaSemana)
    ELSE IF DoctorSlotTaken(r) THEN Response(400, MsgMedicoOcupado)
    ELSE IF PatientSlotTaken(r) THEN Response(400, MsgPacienteOcupado)
    ELSE IF OwnDoctor(r) THEN Response(400, MsgProprio)
    ELSE Response(200, MsgMarcou)

C5_BookFirstFailingCheck ==
    [][ (req[1].op = Book /\ Returns(1))
        => resp'[1] \in {ExpectedBook(req[1]), StoreFailure} ]_vars

\* The seventh check is reached with a patient whose own doctor is booked.
C5_Witness ==
    /\ pc[1] = "paciente_nif"
    /\ req[1].op = Book
    /\ OwnDoctor(req[1])

(***************************************************************************)
(* C6, as stated.  A book request whose patient record references the      *)
(* doctor being booked is answered 400 'doctor cannot treat self' and      *)
(* inserts nothing; no appointment pairs a patient with that doctor.       *)
(***************************************************************************)
NoSelfAppointment(b) ==
    \A c \in BagToSet(b) : [ssn |-> c.ssn, nif |-> c.nif] \notin paciente

C6_AsStated ==
    [][ /\ NoSelfAppointment(consulta')
        /\ \A p \in Procs :
              (req[p].op = Book /\ OwnDoctor(req[p]) /\ Returns(p))
              => /\ resp'[p] \in {Response(400, MsgProprio), StoreFailure}
                 /\ consulta' = consulta ]_vars

(***************************************************************************)
(* C6, amended.  A book request whose patient record references the doctor *)
(* being booked never succeeds and inserts nothing; when it reaches the    *)
(* self check (checks 1-6 passed) it is answered 400 'doctor cannot treat  *)
(* self' (or 500 on a store failure).  No appointment created by book      *)
(* pairs a patient with the doctor the patient's record references.        *)
(***************************************************************************)
C6_NoSelfAppointment ==
    [][ /\ NoSelfAppointment(consulta')
        /\ \A p \in Procs :
              /\ (req[p].op = Book /\ OwnDoctor(req[p]) /\ Returns(p))
                 => /\ resp'[p].status # 200
                    /\ consulta' = consulta
              /\ (pc[p] = "paciente_nif" /\ OwnDoctor(req[p]) /\ Steps(p))
                 => /\ resp'[p] \in {Response(400, MsgProprio), StoreFailure}
                    /\ pc'[p] = "idle"
                    /\ consulta' = consulta ]_vars

\* A request was refused at the self check.
C6_Witness == \E p \in Procs : resp[p] = Response(400, MsgProprio)

(***************************************************************************)
(* C7.  The table consulta changes only in a step in which a handler       *)
(* returns success: a request answered 400, 404 or 500 leaves it as it     *)
(* was, and a transaction that fails keeps none of its writes.             *)
(***************************************************************************)
C7_FailureWritesNothing ==
    [][ /\ (\A p \in Procs : ~(Returns(p) /\ resp'[p].status = 200))
           => consulta' = consulta
        /\ \A p \in Procs :
              (resp'[p] # resp[p] /\ resp'[p].status \in {400, 404, 500})
              => /\ consulta' = consulta
                 /\ tx'[p] = NoTx ]_vars

\* A transaction failed; the appointment booked before it is still the only one.
C7_Witness ==
    /\ resp[1] = StoreFailure
    /\ BagCardinality(consulta) = 1

(***************************************************************************)
(* C8.  A cancel request that passed validation and the clinic, patient    *)
(* and doctor checks and matches no appointment on (patient, doctor,       *)
(* clinic, date, time) is answered 400 'no matching appointment' (or 500   *)
(* on a store failure) and deletes nothing.                                *)
(***************************************************************************)
C8_CancelNoMatch ==
    [][ (pc[1] = "delete" /\ ExactMatches(req[1]) = {} /\ Steps(1))
        => /\ resp'[1] \in {Response(400, MsgNaoEncontrada), StoreFailure}
           /\ pc'[1] = "idle"
           /\ consulta' = consulta ]_vars

\* A cancel found no match although an appointment is in the table.
C8_Witness ==
    /\ resp[1] = Response(400, MsgNaoEncontrada)
    /\ BagCardinality(consulta) = 1

(***************************************************************************)
(* C9.  A successful cancel removes exactly the appointments that equal    *)
(* its request on patient, doctor, clinic, date and time (there is one),   *)
(* and leaves every other appointment as it was.                           *)
(***************************************************************************)
C9_CancelRemovesExactMatch ==
    [][ \A p \in Procs :
          (pc[p] = "commit" /\ req[p].op = Cancel /\ Returns(p)
             /\ resp'[p].status = 200)
          => /\ ExactMatches(req[p]) # {}
             /\ \A c \in BagToSet(consulta) \cup BagToSet(consulta') :
                   CopiesIn(c, consulta') =
                      IF c \in ExactMatches(req[p]) THEN 0
                      ELSE CopiesIn(c, consulta) ]_vars

\* A cancel succeeded and another appointment is still in the table.
C9_Witness ==
    \E p \in Procs :
        /\ resp[p] = Response(200, MsgCancelou)
        /\ BagCardinality(consulta) = 1

(***************************************************************************)
(* C10.  A cancel request that passed validation is answered by the first  *)
(* failing check in the order clinic (404), patient (400), doctor (400),   *)
(* then by the outcome of the delete; the delete is attempted only when    *)
(* the three checks passed.                                                *)
(***************************************************************************)
ExpectedCancel(r) ==
    IF ~KnownClinic(r) THEN Response(404, MsgClinica)
    ELSE IF ~KnownPatient(r) THEN Response(400, MsgPaciente)
    ELSE IF ~KnownDoctor(r) THEN Response(400, MsgMedico)
    ELSE IF ExactMatches(r) = {} THEN Response(400, MsgNaoEncontrada)
    ELSE Response(200, MsgCancelou)

C10_CancelFirstFailingCheck ==
    [][ /\ (req[1].op = Cancel /\ Returns(1))
           => resp'[1] \in {ExpectedCancel(req[1]), StoreFailure}
        /\ (pc'[1] = "delete" \/ tx'[1].del # EmptyBag)
           => /\ req'[1].op = Cancel
              /\ KnownClinic(req'[1])
              /\ KnownPatient(req'[1])
              /\ KnownDoctor(req'[1]) ]_vars

\* The third check is reached by a cancel that names an unknown doctor.
C10_Witness ==
    /\ pc[1] = "medico"
    /\ req[1].op = Cancel
    /\ ~KnownDoctor(req[1])

(***************************************************************************)
(* C11.  For a tuple (clinic, patient, doctor, date, time) that passes     *)
(* validation and is bookable in the store the scenario starts from, the   *)
(* requests book, book, cancel, cancel with that tuple are answered, in    *)
(* order, 200, 400 'doctor already booked', 200, 400 'no matching          *)
(* appointment'; after the first book the table holds the start's rows     *)
(* and the new appointment, after the first cancel and at the end it is    *)
(* the table the scenario started from.                                    *)
(***************************************************************************)
BookableIn(r, b) ==
    /\ KnownClinic(r) /\ KnownPatient(r) /\ KnownDoctor(r)
    /\ Affiliated(r)
    /\ \A c \in BagToSet(b) :
          (c.data = StrpDate(r.data) /\ c.hora = StrpTime(r.hora))
          => (c.nif # r.medico /\ c.ssn # r.paciente)
    /\ ~OwnDoctor(r)

AppointmentOf(r) ==
    [ssn |-> r.paciente, nif |-> r.medico, nome |-> r.clinica,
     data |-> StrpDate(r.data), hora |-> StrpTime(r.hora)]

C11_BookBookCancelCancel ==
    [][ (Returns(1) /\ BookableIn(cenario.pedido, cenario.antes))
        => CASE cenario.n = 1 ->
                  /\ resp'[1] = Response(200, MsgMarcou)
                  /\ consulta' = cenario.antes
                                   (+) SetToBag({AppointmentOf(cenario.pedido)})
             [] cenario.n = 2 ->
                  /\ resp'[1] = Response(400, MsgMedicoOcupado)
                  /\ consulta' = consulta
             [] cenario.n = 3 ->
                  /\ resp'[1] = Response(200, MsgCancelou)
                  /\ consulta' = cenario.antes
             [] cenario.n = 4 ->
                  /\ resp'[1] = Response(400, MsgNaoEncontrada)
                  /\ consulta' = cenario.antes ]_vars

\* The fourth request was answered; the scenario started from a table with
\* an appointment of its patient and doctor at another time.
C11_Witness ==
    /\ cenario.n = 4
    /\ pc[1] = "idle" /\ req[1] = NoReq
    /\ resp[1] = Response(400, MsgNaoEncontrada)
    /\ BookableIn(cenario.pedido, cenario.antes)
    /\ consulta = cenario.antes
    /\ \E c \in BagToSet(cenario.antes) :
          c.ssn = cenario.pedido.paciente /\ c.nif = cenario.pedido.medico

(***************************************************************************)
(* Vocabulary of the validation properties: the six rules on a request r   *)
(* at the clock, each stated on its own.  Rule 5 counts the seconds from   *)
(* the clock to the instant (86400 a day).                                 *)
(***************************************************************************)
AllDigits(s) == \A i \in 1..Len(s) : Ch(s, i) \in Digits \cup Superscripts
Parseable(s, formato) == Strptime(s, formato) # <<>>

Holds(k, r) ==
    CASE k = 1 -> r.paciente # "" /\ Len(r.paciente) = 11 /\ AllDigits(r.paciente)
      [] k = 2 -> r.medico # "" /\ Len(r.medico) = 9 /\ AllDigits(r.medico)
      [] k = 3 -> r.data # "" /\ Parseable(r.data, FormatoData)
      [] k = 4 -> r.hora # "" /\ Parseable(r.hora, FormatoHora)
      [] k = 5 -> /\ Parseable(r.data, FormatoData)
                  /\ Parseable(r.hora, FormatoHora)
                  /\ (StrpDate(r.data) - clock.date) * 86400
                       + StrpTime(r.hora) - clock.time >= 3600
      [] k = 6 -> /\ Parseable(r.hora, FormatoHora)
                  /\ (StrpTime(r.hora) \div 3600) \in (8..12) \cup (14..18)

Failing(r) == {k \in 1..6 : ~Holds(k, r)}

Lowest(S) == CHOOSE k \in S : \A j \in S : k <= j

\* The error of rule k on request r.
ErrorOf(k, r) ==
    CASE k = 1 -> IF r.paciente = "" THEN ErrPacienteVazio ELSE ErrPacienteFormato
      [] k = 2 -> IF r.medico = "" THEN ErrMedicoVazio ELSE ErrMedicoFormato
      [] k = 3 -> IF r.data = "" THEN ErrDataVazia ELSE ErrDataFormato
      [] k = 4 -> IF r.hora = "" THEN ErrHoraVazia ELSE ErrHoraFormato
      [] k = 5 -> ErrPassado
      [] k = 6 -> ErrHorario

\* A request has arrived for handler p, which has not looked at it yet.
Arrived(p) == pc[p] = "idle" /\ req[p] # NoReq

C13_HourWindow ==
    [][ (Arrived(1) /\ Failing(req[1]) \cap (1..5) = {})
        => LET t == StrpTime(req[1].hora)
               inside == \/ (8 * 3600 <= t /\ t < 13 * 3600)
                         \/ (14 * 3600 <= t /\ t < 19 * 3600)
           IN  /\ inside <=> (pc'[1] = "clinica")
               /\ ~inside <=> (resp'[1] = Response(400, ErrHorario))
               /\ req[1].hora \in {"12:30:00", "14:00:00"}
                  => pc'[1] = "clinica"
               /\ req[1].hora \in {"13:00:00", "13:15:00", "19:00:00"}
                  => resp'[1] = Response(400, ErrHorario) ]_vars

\* A request for 13:00:00 on a day to come was refused for the hour.
C13_Witness ==
    /\ resp[1] = Response(400, ErrHorario)
    /\ cenario.pedido.hora = "13:00:00"

(***************************************************************************)
(* Vocabulary of the generator's properties: instants as seconds from the  *)
(* call's start, and the grid start + k * interval below the end.          *)
(***************************************************************************)
\* The seconds from instant a to instant b.
Seconds(a, b) == (b.date - a.date) * 86400 + b.time - a.time

\* The instant s seconds after a.
Plus(a, s) ==
    [date |-> a.date + ((a.time + s) \div 86400), time |-> (a.time + s) % 86400]

\* The grid of a call g: k with start + k * interval < end.
Grid(g) ==
    {k \in 0..(Seconds(g.inicio, g.fim) \div (60 * g.intervalo_minutos)) :
        k * 60 * g.intervalo_minutos < Seconds(g.inicio, g.fim)}

GridInstant(g, k) == Plus(g.inicio, k * 60 * g.intervalo_minutos)

Lunch(t) == t.time = 13 * 3600 \/ t.time = 13 * 3600 + 30 * 60

Produced(g) == {g.horarios[i] : i \in 1..Len(g.horarios)}

(***************************************************************************)
(* C14.  Every instant t the slot generator produces has start <= t < end  *)
(* and t - start a multiple of the interval; the instants are in strictly  *)
(* increasing order; none has time of day 13:00 or 13:30.                  *)
(***************************************************************************)
C14_ProducedInstants ==
    gerar.pc = "done"
    => /\ \A i \in 1..Len(gerar.horarios) :
            LET s == Seconds(gerar.inicio, gerar.horarios[i])
            IN  /\ 0 <= s
                /\ s < Seconds(gerar.inicio, gerar.fim)
                /\ s % (60 * gerar.intervalo_minutos) = 0
                /\ ~Lunch(gerar.horarios[i])
       /\ \A i \in 1..(Len(gerar.horarios) - 1) :
            Seconds(gerar.horarios[i], gerar.horarios[i + 1]) > 0

\* A call at 30 minutes whose range spans the lunch block returned.
C14_Witness ==
    /\ gerar.pc = "done"
    /\ gerar.intervalo_minutos = 30
    /\ gerar.inicio.date = gerar.fim.date
    /\ gerar.inicio.time = 12 * 3600
    /\ gerar.fim.time = 19 * 3600
    /\ Len(gerar.horarios) = 12

(***************************************************************************)
(* C15, as stated.  Every call of the slot generator produces the grid     *)
(* instants start + k * interval of [start, end) other than those at 13:00 *)
(* or 13:30, each once (20 slots for 08:00-19:00 at 30 minutes), and none  *)
(* if start >= end.                                                        *)
(***************************************************************************)
GridMinusLunch(g) ==
    /\ Produced(g) = {GridInstant(g, k) : k \in Grid(g)}
                        \ {t \in {GridInstant(g, k) : k \in Grid(g)} : Lunch(t)}
    /\ Len(g.horarios)
         = Cardinality(Grid(g))
             - Cardinality({k \in Grid(g) : Lunch(GridInstant(g, k))})
    /\ ~Before(g.inicio, g.fim) => g.horarios = <<>>
    /\ (/\ g.inicio.date = g.fim.date
        /\ g.inicio.time = 8 * 3600 /\ g.fim.time = 19 * 3600
        /\ g.intervalo_minutos = 30) => Len(g.horarios) = 20

C15_AsStated == gerar.pc # "call" => (gerar.pc = "done" /\ GridMinusLunch(gerar))

(***************************************************************************)
(* What the generator does, for reference: a call in which the increment   *)
(* of the start never leaves the calendar (start + k * interval is no      *)
(* later than 9999-12-31 23:59:59 for the first k with start + k *         *)
(* interval >= end) produces the grid minus the lunch instants; a call in  *)
(* which the increment leaves the calendar raises OverflowError and        *)
(* produces nothing.                                                       *)
(***************************************************************************)
\* The first instant of the grid at or after the end is in the calendar.
InCalendar(g) ==
    \/ ~Before(g.inicio, g.fim)
    \/ LET k == (Seconds(g.inicio, g.fim) + 60 * g.intervalo_minutos - 1)
                   \div (60 * g.intervalo_minutos)
       IN  GridInstant(g, k).date <= DateMax

GerarWithinCalendar ==
    gerar.pc # "call"
    => IF InCalendar(gerar)
       THEN gerar.pc = "done" /\ GridMinusLunch(gerar)
       ELSE gerar.pc = "OverflowError" /\ gerar.horarios = <<>>

(***************************************************************************)
(* C19.  Validation comes before any store access in book and cancel: a    *)
(* request that fails a validation rule is answered 400 with a validation  *)
(* error in the step that takes it, no statement of the transaction is     *)
(* run for it and consulta is unchanged; with an unknown clinic as well,   *)
(* it is still answered 400, never 404.                                    *)
(***************************************************************************)
ValidationErrors ==
    {ErrPacienteVazio, ErrPacienteFormato, ErrMedicoVazio, ErrMedicoFormato,
     ErrDataVazia, ErrDataFormato, ErrHoraVazia, ErrHoraFormato, ErrPassado,
     ErrHorario}

C19_ValidationBeforeStore ==
    [][ /\ (Arrived(1) /\ Failing(req[1]) # {})
           => /\ pc'[1] = "idle"
              /\ resp'[1].status = 400
              /\ resp'[1].message \in ValidationErrors
              /\ consulta' = consulta
              /\ tx' = tx
        /\ pc'[1] \in TxPcs => Failing(cenario.pedido) = {} ]_vars

\* A request with a malformed patient id for an unknown clinic was refused.
C19_Witness ==
    /\ resp[1].status = 400
    /\ cenario.pedido.clinica = "X"
    /\ ~KnownClinic(cenario.pedido)
    /\ 1 \in Failing(cenario.pedido)

(***************************************************************************)
(* Vocabulary of the resolver's properties.  The result is read as the     *)
(* client reads it: the doctor from the label, the slots from the two      *)
(* strings of each pair.                                                   *)
(***************************************************************************)
\* The doctor an entry of the result names.
MedicoDe(e) == CHOOSE m \in medico : e.medico = m.nome \o " (" \o m.nif \o ")"

\* The instants an entry of the result lists.
SlotsDe(e) ==
    [i \in 1..Len(e.horarios_disponiveis) |->
        [date |-> strptime_data(e.horarios_disponiveis[i][1])[1],
         time |-> strptime_hora(e.horarios_disponiveis[i][2])[1]]]

\* now + 1h, from the clock.
Limite == Plus(clock, 3600)

\* The doctor is affiliated with the requested clinic on the date's weekday.
TrabalhaNaClinica(m, d) ==
    \E t \in trabalha :
        t.nif = m.nif /\ t.nome = lista.clinica /\ t.dia_da_semana = Weekday(d)

\* The doctor has an appointment at the instant, at whatever clinic.
Ocupado(m, s) ==
    \E r \in BagToSet(consulta) :
        r.nif = m.nif /\ r.data = s.date /\ r.hora = s.time

\* The resolver answered with a list.
ListaDevolvida == lista.pc = "done" /\ lista.resp.status = 200

(***************************************************************************)
(* C16.  For every doctor in the resolver's result the slot list has at    *)
(* most 3 entries, and every listed slot is strictly after now + 1h, falls *)
(* on a weekday on which the doctor is affiliated with the requested       *)
(* clinic, and is the (date, time) of none of the doctor's appointments,   *)
(* at whatever clinic.                                                     *)
(***************************************************************************)
C16_ResolverSlots ==
    \A i \in 1..Len(lista.resultado) :
        LET m == MedicoDe(lista.resultado[i])
            s == SlotsDe(lista.resultado[i])
        IN  /\ Len(s) <= 3
            /\ \A j \in 1..Len(s) :
                  /\ Before(Limite, s[j])
                  /\ TrabalhaNaClinica(m, s[j].date)
                  /\ ~Ocupado(m, s[j])

\* A list was returned for a doctor who has an appointment at another
\* clinic on the day of the first listed slot, after now + 1h.
C16_Witness ==
    /\ ListaDevolvida
    /\ \E i \in 1..Len(lista.resultado) :
          LET m == MedicoDe(lista.resultado[i])
              s == SlotsDe(lista.resultado[i])
          IN  /\ Len(s) = 3
              /\ \E r \in BagToSet(consulta) :
                    /\ r.nif = m.nif
                    /\ r.nome # lista.clinica
                    /\ r.data = s[1].date
                    /\ Before(Limite, [date |-> r.data, time |-> r.hora])

(***************************************************************************)
(* C17.  When the day-by-day scan runs for a doctor whose set of working   *)
(* weekdays at the clinic holds no value in 0..6, the resolver does not    *)
(* loop forever: the scan terminates.                                      *)
(***************************************************************************)
SemDiaDaSemana == lista.dias_da_semana \cap (0..6) = {}

C17_ScanTerminates == (lista.pc = "while" /\ SemDiaDaSemana) ~> lista.pc = "done"

\* The scan of a doctor without a weekday ended, on the last day of the
\* calendar.
C17_Witness ==
    /\ lista.pc = "done"
    /\ lista.dias_da_semana # {}
    /\ SemDiaDaSemana
    /\ lista.data_atual = DateMax
    /\ lista.horarios_disponiveis = <<>>

(***************************************************************************)
(* C18.  The resolver checks the clinic first: an unknown clinic is        *)
(* answered with the 404 'clinic not found' whatever the specialty; a      *)
(* known clinic with no doctor of the requested specialty affiliated there *)
(* with the distinct 404 'specialty not offered at clinic'; only otherwise *)
(* is a doctor list returned, one entry per such doctor; no step writes    *)
(* to the store.  (A request taken in the last hour of the calendar, for   *)
(* which now + 1h does not exist, is answered 500 before any check.)       *)
(***************************************************************************)
ClinicaConhecida == \E c \in clinica : c.nome = lista.clinica

MedicosPedidos ==
    {m \in medico :
        /\ m.especialidade = lista.especialidade
        /\ \E t \in trabalha : t.nif = m.nif /\ t.nome = lista.clinica}

NowExiste == Limite.date <= DateMax

GradeDoDia ==
    {inicio_horario + 60 * IntervaloMinutos * k : k \in 0..21} \ Almoco

C20_EarliestFree ==
    \A i \in 1..Len(lista.resultado) :
        LET m == MedicoDe(lista.resultado[i])
            s == SlotsDe(lista.resultado[i])
        IN  /\ \A j \in 1..(Len(s) - 1) : Before(s[j], s[j + 1])
            /\ Len(s) > 0
               => \A d \in Limite.date..s[Len(s)].date, t \in GradeDoDia :
                     LET c == [date |-> d, time |-> t]
                     IN  (/\ TrabalhaNaClinica(m, d)
                          /\ Before(Limite, c)
                          /\ ~Ocupado(m, c)
                          /\ Before(c, s[Len(s)]))
                         => \E j \in 1..Len(s) : s[j] = c

\* A returned list starts on a later working day than now + 1h, after a
\* booked slot of the grid.
C20_Witness ==
    /\ ListaDevolvida
    /\ \E i \in 1..Len(lista.resultado) :
          LET m == MedicoDe(lista.resultado[i])
              s == SlotsDe(lista.resultado[i])
          IN  /\ Len(s) = 3
              /\ Limite.date < s[1].date
              /\ TrabalhaNaClinica(m, Limite.date)
              /\ \E r \in BagToSet(consulta) :
                    /\ r.nif = m.nif
                    /\ Before(Limite, [date |-> r.data, time |-> r.hora])
                    /\ Before([date |-> r.data, time |-> r.hora], s[1])
                    /\ r.hora \in GradeDoDia

(***************************************************************************)
(* C21.  For a doctor with a working weekday in 0..6 at the clinic the     *)
(* scan terminates, and when it terminates the doctor's slot list has      *)
(* exactly 3 entries, never 0, 1 or 2.                                     *)
(***************************************************************************)
C21_ExactlyThree ==
    [][ (lista.pc = "while" /\ lista'.pc # "while" /\ ~SemDiaDaSemana)
        => Len(lista'.horarios_disponiveis) = 3 ]_vars

\* The termination half of C21, which holds: the scan of a doctor with a
\* working weekday ends.
ScanEnds == (lista.pc = "while" /\ ~SemDiaDaSemana) ~> lista.pc # "while"

Inseridas(b, t) == BagToSet(b) \cup UNION {BagToSet(t[p].ins) : p \in Procs}

\* The instant of an appointment.
InstanteDe(c) == [date |-> c.data, time |-> c.hora]

\* The appointment is one the rules allow at the clock: its clinic, patient
\* and doctor are in the tables, the doctor works at the clinic on the
\* weekday of its date, its time is in [08:00, 13:00) or [14:00, 19:00), and
\* its instant is not before now + 1h.
Regular(c) ==
    /\ \E k \in clinica : k.nome = c.nome
    /\ \E x \in paciente : x.ssn = c.ssn
    /\ \E m \in medico : m.nif = c.nif
    /\ [nif |-> c.nif, nome |-> c.nome,
        dia_da_semana |-> Weekday(c.data)] \in trabalha
    /\ \/ (8 * 3600 <= c.hora /\ c.hora < 13 * 3600)
       \/ (14 * 3600 <= c.hora /\ c.hora < 19 * 3600)
    /\ ~Before(InstanteDe(c), Limite)

(***************************************************************************)
(* C23.  Every appointment inserted by book satisfies, when it is          *)
(* inserted: its clinic, patient and doctor exist; the doctor has an       *)
(* affiliation with that clinic on the weekday of its date; its time lies  *)
(* in [08:00,13:00) or [14:00,19:00); its instant is not before now + 1h.  *)
(* No sequence of book and cancel requests creates another appointment.    *)
(***************************************************************************)
C23_InsertedAppointmentsRegular ==
    [][ /\ \A c \in Inseridas(consulta', tx') \ Inseridas(consulta, tx) :
              Regular(c)
        /\ \A c \in BagToSet(consulta') :
              CopiesIn(c, consulta') > CopiesIn(c, consulta) => Regular(c) ]_vars

\* Appointments were booked one after the other as time passed; the last
\* one was booked for the very instant now + 1h, next to one booked for
\* another day.
C23_Witness ==
    /\ pc[1] = "idle"
    /\ cenario.pedido.op = Book
    /\ resp[1] = Response(200, MsgMarcou)
    /\ AppointmentOf(cenario.pedido) \in BagToSet(consulta)
    /\ InstanteDe(AppointmentOf(cenario.pedido)) = Limite
    /\ \E c \in BagToSet(consulta) : c.data # Limite.date

(***************************************************************************)
(* C24.  Cancel only removes appointments that have not yet taken place:   *)
(* a cancel request whose (date, time) instant is strictly before          *)
(* now + 1h is rejected by validation with 400 and deletes nothing, so an  *)
(* appointment whose instant is before now + 1h, and all the more one      *)
(* whose instant is in the past, is never removed by a cancel request.     *)
(***************************************************************************)
C24_PastNeverCancelled ==
    [][ /\ ( /\ Arrived(1)
             /\ req[1].op = Cancel
             /\ Parseable(req[1].data, FormatoData)
             /\ Parseable(req[1].hora, FormatoHora)
             /\ Before(InstanteDe(AppointmentOf(req[1])), Limite) )
           => /\ pc'[1] = "idle"
              /\ resp'[1].status = 400
              /\ consulta' = consulta
              /\ tx'[1] = NoTx
        /\ \A c \in BagToSet(consulta) :
              ( \/ CopiesIn(c, consulta') < CopiesIn(c, consulta)
                \/ \E p \in Procs : CopiesIn(c, tx'[p].del) > 0 )
              => ~Before(InstanteDe(c), Limite) ]_vars

\* An appointment was booked ahead and has taken place; the request to
\* cancel it, naming it exactly, was answered 400 and it is still there.
C24_Witness ==
    /\ pc[1] = "idle"
    /\ req[1] = NoReq
    /\ cenario.pedido.op = Cancel
    /\ resp[1] = Response(400, ErrPassado)
    /\ AppointmentOf(cenario.pedido) \in BagToSet(consulta)
    /\ Before(InstanteDe(AppointmentOf(cenario.pedido)), clock)

=============================================================================
